---- MODULE Spec2Model ----
(***************************************************************************)
(* Smart_AttendanceTracker: the QR check-in portal (app1.py), the admin    *)
(* console that issues tokens and unbinds devices (app12.py) and the       *)
(* monolithic variant (app.py), modelled over the CSV files they share.    *)
(*                                                                         *)
(* Strings are tuples of one-character strings so that lower(), strip(),   *)
(* startswith(), replace() and int() are computed character by character.  *)
(* A Streamlit page run (one execution of main() with at most one widget   *)
(* event) is one action.  Roll numbers contain a letter, so pandas reads   *)
(* the rollnumber columns back as strings.  Coordinates are points on the  *)
(* meridian through the campus point, written as a signed offset in metres *)
(* from it, on which the haversine distance is the absolute offset.        *)
(*                                                                         *)
(* Spec follows one device from the scan to the check-in over several      *)
(* days, SpecGate the access gate of two sessions as the clock advances,   *)
(* SpecDevices the check-ins of two devices, and SpecRace the calls of     *)
(* mark_attendance_qr of two sessions cut at every file load and save.     *)
(***************************************************************************)
EXTENDS Integers, Sequences, FiniteSets, TLC

\* ------------------------------------------------------------------ bounds
StartTime == 40      \* clock value (seconds) of the initial state
MaxTick == 1         \* the clock advances at most this many seconds
MaxDay == 1          \* the date advances at most this many days
MaxRoster == 3       \* the admin adds students up to this many roster rows
MaxMinute == 6       \* the clock advances at most this many whole minutes
MaxRetries == 3      \* query_huggingface_model is called with retries up to this

\* --------------------------------------------------------- program constants
ALLOWED_RADIUS_METERS == 500

\* ------------------------------------------------------------------ strings
ToLowerChar(c) ==
    CASE c = "A" -> "a"
      [] c = "B" -> "b"
      [] c = "C" -> "c"
      [] c = "E" -> "e"
      [] OTHER -> c

\* str.lower()
Lower(s) == [i \in DOMAIN s |-> ToLowerChar(s[i])]

IsSpace(c) == c = " "

RECURSIVE LStrip(_)
LStrip(s) == IF s # <<>> /\ IsSpace(Head(s)) THEN LStrip(Tail(s)) ELSE s

RECURSIVE RStrip(_)
RStrip(s) ==
    IF s # <<>> /\ IsSpace(s[Len(s)]) THEN RStrip(SubSeq(s, 1, Len(s) - 1)) ELSE s

\* str.strip()
Strip(s) == RStrip(LStrip(s))

\* str.startswith(p)
StartsWith(s, p) == Len(s) >= Len(p) /\ SubSeq(s, 1, Len(p)) = p

QR_PREFIX == <<"q", "r", "_">>

\* token.replace("qr_", ""): every non-overlapping occurrence, left to right
RECURSIVE RemoveQr(_)
RemoveQr(s) ==
    IF Len(s) < 3 THEN s
    ELSE IF SubSeq(s, 1, 3) = QR_PREFIX THEN RemoveQr(SubSeq(s, 4, Len(s)))
    ELSE <<Head(s)>> \o RemoveQr(Tail(s))

Digits == <<"0", "1", "2", "3", "4", "5", "6", "7", "8", "9">>

IsDigit(c) == \E i \in 1..10 : Digits[i] = c

DigitVal(c) == (CHOOSE i \in 1..10 : Digits[i] = c) - 1

\* the digits and underscores int() accepts after the sign
IntBodyOk(s) ==
    /\ s # <<>>
    /\ IsDigit(s[1])
    /\ IsDigit(s[Len(s)])
    /\ \A i \in DOMAIN s : IsDigit(s[i]) \/ s[i] = "_"
    /\ \A i \in 1..(Len(s) - 1) : ~(s[i] = "_" /\ s[i + 1] = "_")

RECURSIVE IntBodyVal(_, _)
IntBodyVal(s, acc) ==
    IF s = <<>> THEN acc
    ELSE IF Head(s) = "_" THEN IntBodyVal(Tail(s), acc)
    ELSE IntBodyVal(Tail(s), 10 * acc + DigitVal(Head(s)))

\* int(text): surrounding blanks, one optional sign, digits with single
\* underscores between them; anything else raises ValueError (ok = FALSE)
ParseInt(text) ==
    LET s == Strip(text)
        signed == s # <<>> /\ s[1] \in {"+", "-"}
        body == IF signed THEN Tail(s) ELSE s
    IN  IF IntBodyOk(body)
        THEN [ok |-> TRUE,
              val |-> IF signed /\ s[1] = "-" THEN 0 - IntBodyVal(body, 0)
                      ELSE IntBodyVal(body, 0)]
        ELSE [ok |-> FALSE, val |-> 0]

RECURSIVE DecNat(_)
DecNat(n) == IF n < 10 THEN <<Digits[n + 1]>> ELSE DecNat(n \div 10) \o <<Digits[(n % 10) + 1]>>

\* str(n) of an integer
Dec(n) == IF n < 0 THEN <<"-">> \o DecNat(0 - n) ELSE DecNat(n)

\* ------------------------------------------------------------------- inputs
Sessions == {"D1", "D2"}          \* browser sessions; each is one device

NoAccess == <<"no access parameter">>

\* f"qr_{current_timestamp}", the token generate_qr_code issues
QrToken(t0) == QR_PREFIX \o Dec(t0)

\* ages of the well-formed tokens a request presents (-1: stamped ahead)
TokenAges == {-1, 0, 15, 20, 21, 25}

WellFormedTokens(t) == {QrToken(t - a) : a \in TokenAges}

MalformedTokens(t) ==
    { <<>>,                              \* access=
      <<"x">> \o Dec(t),                 \* no prefix, then digits
      Dec(t),                            \* a bare integer
      QR_PREFIX,                         \* prefix and nothing else
      QR_PREFIX \o <<"x">> \o Dec(t),    \* prefix, then not an integer
      QR_PREFIX \o QR_PREFIX \o Dec(t),  \* the prefix twice
      QR_PREFIX \o <<"+">> \o Dec(t) }   \* a signed number

Tokens(t) == {NoAccess} \cup WellFormedTokens(t) \cup MalformedTokens(t)

\* the URLs a click arrives with: no token left in it, or a stale one
ClickTokens(t) == {NoAccess, QrToken(t - 25)}

A1 == <<"A", "1">>
A2 == <<"A", "2">>
B9 == <<"B", "9">>
Ann == <<"A", "n">>
Bob == <<"B", "o">>
Eve == <<"E", "v">>
CSE == <<"C">>
ECE == <<"E">>

Student(r, n, b) == [rollnumber |-> r, studentname |-> n, branch |-> b]

\* students_new.csv as the admin uploaded it
Roster == << Student(A1, Ann, CSE), Student(A2, Bob, CSE) >>

\* the same student, typed in lower case with blanks around
a1 == Student(<<" ", "a", "1">>, <<"a", "n", " ">>, <<"c">>)

\* what one student types into the three text inputs
Forms ==
    { Student(A1, Ann, CSE),
      a1,
      Student(A1, Bob, CSE),
      Student(B9, Ann, CSE),
      Student(A1, Ann, ECE),
      Student(A1, Eve, CSE),
      Student(A1, <<>>, CSE) }

\* what is typed into app.py's form
AppForms ==
    { Student(A1, Ann, CSE),
      Student(<<"a", "1">>, <<"a", "n">>, <<"c">>),
      a1,
      Student(B9, Ann, CSE),
      Student(A1, <<>>, CSE) }

\* the URLs of SpecDevices: no token, a fresh one, a stale one
DeviceTokens(t) == {NoAccess, QrToken(t), QrToken(t - 25)}

\* what two students type
DeviceForms ==
    { Student(A1, Ann, CSE), a1, Student(A2, Bob, CSE), Student(A1, Bob, CSE) }

\* user_lat, user_lon: <<offset>>, or None
NoLocation == <<>>

At(p) == <<p>>

\* offsets (metres) the manual location override is set to in Spec
Positions == {501}

\* ... and in SpecFence: both sides of the campus point, around the radius
FencePositions == {-501, -500, 500, 501}

\* offsets typed into the location form of the verification step
VerifyPositions == {0, 501}

\* st.session_state.qr_generated_time before the first QR code
None == -1

\* ------------------------------------------------------------------- state
VARIABLES
    now,                 \* int(time.time())
    today,               \* date.today(), as a day number
    students_new,        \* students_new.csv: rows
    attendance_new,      \* attendance_new.csv: rows
    device_binding,      \* device_binding.csv: rows
    unreadable,          \* the CSV files pd.read_csv raises on; the page runs
                         \* taken whole are those with readable files
    qr_access_granted,   \* st.session_state.qr_access_granted, per session
    location_verified,   \* st.session_state.location_verified
    show_location_form,  \* st.session_state.show_location_form
    location_requested,  \* st.session_state.location_requested
    admin_logged_app1,   \* st.session_state.admin_logged_app1
    admin_logged,        \* app12: st.session_state.admin_logged
    qr_code_active,      \* app12: st.session_state.qr_code_active
    qr_generated_time,   \* app12: st.session_state.qr_generated_time
    qr_log,              \* app12: timestamps of the generate_qr_code log rows
    req,                 \* the mark_attendance_qr call running in each session
    measured,            \* two points and the distances calculate_distance
                         \* returned for them, in both orders
    attendance,          \* app.py: attendance.csv, rows
    mark_call,           \* app.py: the mark_attendance call running in each session
    otp_store,           \* app.py: st.session_state.otp_store, per session
    student_logged_in_username,  \* app.py: st.session_state, per session
    otp_sent,            \* per session and username: the OTP sent last, when,
                         \* and how many verifications of it succeeded
    otp_result,          \* what the latest Verify OTP click returned
    hf,                  \* app.py: the query_huggingface_model call under way
    last                 \* what the latest page run returned

vars == << now, today, students_new, attendance_new, device_binding, unreadable,
           qr_access_granted, location_verified, show_location_form,
           location_requested, admin_logged_app1, admin_logged,
           qr_code_active, qr_generated_time, qr_log, req, measured,
           attendance, mark_call, otp_store, student_logged_in_username,
           otp_sent, otp_result, hf, last >>

\* the state of the functions that are taken on their own
otp_state == << otp_store, student_logged_in_username, otp_sent, otp_result >>
standalone == << measured, attendance, mark_call, otp_state, hf >>
files == << students_new, attendance_new, device_binding >>
qr_state == << qr_code_active, qr_generated_time, qr_log >>
admin_state == << admin_logged, qr_code_active, qr_generated_time, qr_log >>
flags == << qr_access_granted, location_verified, show_location_form,
            location_requested, admin_logged_app1 >>

\* the state of the QR apps but the clock
qr_flow == << today, unreadable, files, flags, admin_state, req, last >>

\* ------------------------------------------------------------ check_qr_access
Access(ok, reason, age, grant) ==
    [ok |-> ok, reason |-> reason, age |-> age, grant |-> grant]

\* the window with its last second cut off
InWindowStrict(time_elapsed) == time_elapsed < 20

\* the window of the comment above check_qr_access, "10-second expiry"
InWindowTen(time_elapsed) == time_elapsed <= 10

\* "if time_elapsed <= 20"
InWindow(time_elapsed) == time_elapsed <= 20

\* the gate letting the session flag stand in for an expired token
check_qr_access_lenient(token, granted, current_time) ==
    IF token # NoAccess /\ StartsWith(token, QR_PREFIX)
    THEN LET parsed == ParseInt(RemoveQr(token))
             time_elapsed == current_time - parsed.val
         IN  IF ~parsed.ok THEN Access(FALSE, "Invalid QR code format", 0, granted)
             ELSE IF InWindow(time_elapsed) \/ granted THEN Access(TRUE, "None", 0, TRUE)
             ELSE Access(FALSE, "QR Code expired", time_elapsed, granted)
    ELSE IF granted THEN Access(TRUE, "None", 0, granted)
    ELSE Access(FALSE, "No valid QR code scanned", 0, granted)

\* the gate admitting the QR code on the admin's screen only
check_qr_access_issued(token, granted, current_time) ==
    IF token # NoAccess /\ StartsWith(token, QR_PREFIX)
    THEN LET parsed == ParseInt(RemoveQr(token))
             time_elapsed == current_time - parsed.val
         IN  IF ~parsed.ok THEN Access(FALSE, "Invalid QR code format", 0, granted)
             ELSE IF InWindow(time_elapsed) /\ qr_code_active /\ parsed.val = qr_generated_time
                  THEN Access(TRUE, "None", 0, TRUE)
             ELSE Access(FALSE, "QR Code expired", time_elapsed, granted)
    ELSE IF granted THEN Access(TRUE, "None", 0, granted)
    ELSE Access(FALSE, "No valid QR code scanned", 0, granted)

\* the gate without the session flag: every run needs a token in its URL
check_qr_access_token_only(token, granted, current_time) ==
    IF token # NoAccess /\ StartsWith(token, QR_PREFIX)
    THEN LET parsed == ParseInt(RemoveQr(token))
             time_elapsed == current_time - parsed.val
         IN  IF ~parsed.ok THEN Access(FALSE, "Invalid QR code format", 0, granted)
             ELSE IF InWindow(time_elapsed) THEN Access(TRUE, "None", 0, TRUE)
             ELSE Access(FALSE, "QR Code expired", time_elapsed, granted)
    ELSE Access(FALSE, "No valid QR code scanned", 0, FALSE)

\* check_qr_access(): token is the access parameter (NoAccess when absent),
\* granted the session flag; grant is the flag after the call
check_qr_access(token, granted, current_time) ==
    IF token # NoAccess /\ StartsWith(token, QR_PREFIX)
    THEN LET parsed == ParseInt(RemoveQr(token))
             time_elapsed == current_time - parsed.val
         IN  IF ~parsed.ok THEN Access(FALSE, "Invalid QR code format", 0, granted)
             ELSE IF InWindow(time_elapsed) THEN Access(TRUE, "None", 0, TRUE)
             ELSE Access(FALSE, "QR Code expired", time_elapsed, granted)
    ELSE IF granted THEN Access(TRUE, "None", 0, granted)
    ELSE Access(FALSE, "No valid QR code scanned", 0, granted)

\* ------------------------------------------------------------------ distance
Abs(x) == IF x < 0 THEN 0 - x ELSE x

COLLEGE_POSITION == 0   \* (COLLEGE_LATITUDE, COLLEGE_LONGITUDE), the origin
COLLEGE_LAT_LON == -5   \* check_location_in_range's own point, 5 m away

\* the difference of the offsets, with its sign
calculate_distance_signed(p1, p2) == p2 - p1

\* the distance of the second point from the origin of the offsets
calculate_distance_from_origin(p1, p2) == Abs(p2)

\* calculate_distance(lat1, lon1, lat2, lon2) on the campus meridian
calculate_distance(p1, p2) == Abs(p2 - p1)

\* check_location(user_lat, user_lon): (within the radius, distance)
check_location(p) ==
    [ok |-> calculate_distance(COLLEGE_POSITION, p) <= ALLOWED_RADIUS_METERS,
     distance |-> calculate_distance(COLLEGE_POSITION, p)]

\* check_location_in_range(user_lat, user_lon): within 0.5 km
check_location_in_range(p) == calculate_distance(COLLEGE_LAT_LON, p) <= 500

\* get_device_id(): a uuid4 drawn once per session and kept in its state;
\* distinct sessions draw distinct values, so the session names it
get_device_id(s) == s

\* ------------------------------------------------------------------- tables
Binding(r, d) == [rollnumber |-> r, device_id |-> d]

\* a row stamped with the day before
EntryYesterday(r, n, d) == [rollnumber |-> r, studentname |-> n, datestamp |-> d - 1]

\* the columns of a ledger row that app.py writes and every check reads
\* (the timestamp column, which no check reads, is left out)
Entry(r, n, d) == [rollnumber |-> r, studentname |-> n, datestamp |-> d]

\* app1's new_entry: the same with its location and distance_from_college
LocatedEntry(r, n, d, user_pos, distance) ==
    LET new_entry == Entry(r, n, d)
    IN  [rollnumber |-> new_entry.rollnumber, studentname |-> new_entry.studentname,
         datestamp |-> new_entry.datestamp, location |-> user_pos,
         distance_from_college |-> <<distance>>]

\* app1's ensure_attendance_new_schema: a column the file lacks is added, blank
ensure_attendance_new_schema(df) ==
    [i \in DOMAIN df |->
        IF "location" \in DOMAIN df[i] THEN df[i]
        ELSE [rollnumber |-> df[i].rollnumber, studentname |-> df[i].studentname,
              datestamp |-> df[i].datestamp, location |-> <<>>,
              distance_from_college |-> <<>>]]

\* app.py's ensure_attendance_new_schema: df[expected] keeps its four columns
app_ensure_attendance_new_schema(df) ==
    [i \in DOMAIN df |->
        [rollnumber |-> df[i].rollnumber, studentname |-> df[i].studentname,
         datestamp |-> df[i].datestamp]]

\* --------------------------------------------------------- mark_attendance_qr
Outcome(ok, reason, fields, dist, bind, att) ==
    [ok |-> ok, reason |-> reason, fields |-> fields, dist |-> dist,
     device_binding |-> bind, attendance_new |-> att]

\* the roster with the blanks around its cells trimmed
Trimmed(students_new_df) ==
    [i \in DOMAIN students_new_df |->
        Student(Strip(students_new_df[i].rollnumber),
                Strip(students_new_df[i].studentname),
                Strip(students_new_df[i].branch))]

\* student_record: the roster rows equal to all three inputs, ignoring case
student_record(students_new_df, rollnumber, studentname, branch) ==
    SelectSeq(students_new_df,
              LAMBDA row : /\ Lower(row.rollnumber) = Lower(rollnumber)
                           /\ Lower(row.studentname) = Lower(studentname)
                           /\ Lower(row.branch) = Lower(branch))

\* the names the not-found message lists
not_found_fields(students_new_df, rollnumber, studentname, branch) ==
    LET roll_match == SelectSeq(students_new_df,
                          LAMBDA row : Lower(row.rollnumber) = Lower(rollnumber))
        name_match == SelectSeq(students_new_df,
                          LAMBDA row : Lower(row.studentname) = Lower(studentname))
        branch_match == SelectSeq(students_new_df,
                          LAMBDA row : Lower(row.branch) = Lower(branch))
    IN  (IF roll_match = <<>> THEN {"Roll number"} ELSE {})
        \cup (IF name_match = <<>> THEN {"Name"} ELSE {})
        \cup (IF branch_match = <<>> THEN {"Branch"} ELSE {})

\* existing_binding: the binding rows of this roll number, ignoring case
existing_binding(device_binding_df, rollnumber) ==
    SelectSeq(device_binding_df,
              LAMBDA row : Lower(row.rollnumber) = Lower(rollnumber))

\* the device comparison left out
other_device_ignored(binding, device_id) == FALSE

\* "if not existing_binding.empty: ... if bound_device != device_id"
other_device(binding, device_id) ==
    binding # <<>> /\ binding[1].device_id # device_id

\* the duplicate check comparing roll numbers as typed
already_marked_exact(attendance_new_df, rollnumber, today_date_str) ==
    SelectSeq(attendance_new_df,
              LAMBDA row : /\ row.rollnumber = rollnumber
                           /\ row.datestamp = today_date_str)

\* already_marked: the ledger rows of this roll number, ignoring case, and date
already_marked(attendance_new_df, rollnumber, today_date_str) ==
    SelectSeq(attendance_new_df,
              LAMBDA row : /\ Lower(row.rollnumber) = Lower(rollnumber)
                           /\ row.datestamp = today_date_str)

\* mark_attendance_qr with the roster match moved behind the location and
\* device checks
mark_attendance_qr_roster_last(form, user_pos, device_id, students_new_df, device_binding_df, attendance_new_df, today_date_str) ==
    LET rollnumber == Strip(form.rollnumber)
        studentname == Strip(form.studentname)
        branch == Strip(form.branch)
        roster == Trimmed(students_new_df)
        distance == calculate_distance(COLLEGE_POSITION, user_pos[1])
        binding == existing_binding(device_binding_df, rollnumber)
        bound_df == IF binding # <<>> THEN device_binding_df
                    ELSE Append(device_binding_df, Binding(rollnumber, device_id))
        attendance_df == ensure_attendance_new_schema(attendance_new_df)
    IN  IF user_pos = NoLocation
        THEN Outcome(FALSE, "Location access required", {}, 0,
                     device_binding_df, attendance_new_df)
        ELSE IF distance > ALLOWED_RADIUS_METERS
        THEN Outcome(FALSE, "Location Error", {}, distance,
                     device_binding_df, attendance_new_df)
        ELSE IF other_device(binding, device_id)
        THEN Outcome(FALSE, "Device Mismatch", {}, 0,
                     device_binding_df, attendance_new_df)
        ELSE IF student_record(roster, rollnumber, studentname, branch) = <<>>
        THEN Outcome(FALSE, "Student not found in the database",
                     not_found_fields(roster, rollnumber, studentname, branch), 0,
                     device_binding_df, attendance_new_df)
        ELSE IF already_marked(attendance_df, rollnumber, today_date_str) # <<>>
        THEN Outcome(FALSE, "Attendance already marked today", {}, 0,
                     bound_df, attendance_new_df)
        ELSE Outcome(TRUE, "Attendance marked successfully", {}, distance, bound_df,
                     Append(attendance_df,
                            LocatedEntry(rollnumber, studentname, today_date_str,
                                         user_pos, distance)))

\* app1.mark_attendance_qr(rollnumber, studentname, branch, user_lat, user_lon)
\* called in a session whose device id is device_id, on the files as given.
\* The result carries the files as the call leaves them.  fields: the fields
\* the not-found message names; dist: int(distance) where a message has it.
\* A ledger row is written with a timestamp column too; no check reads it and
\* it is left out of the rows.
mark_attendance_qr(form, user_pos, device_id, students_new_df, device_binding_df, attendance_new_df, today_date_str) ==
    LET rollnumber == Strip(form.rollnumber)
        studentname == Strip(form.studentname)
        branch == Strip(form.branch)
        roster == Trimmed(students_new_df)
        distance == calculate_distance(COLLEGE_POSITION, user_pos[1])
        binding == existing_binding(device_binding_df, rollnumber)
        bound_df == IF binding # <<>> THEN device_binding_df
                    ELSE Append(device_binding_df, Binding(rollnumber, device_id))
        attendance_df == ensure_attendance_new_schema(attendance_new_df)
    IN  IF student_record(roster, rollnumber, studentname, branch) = <<>>
        THEN Outcome(FALSE, "Student not found in the database",
                     not_found_fields(roster, rollnumber, studentname, branch), 0,
                     device_binding_df, attendance_new_df)
        ELSE IF user_pos = NoLocation
        THEN Outcome(FALSE, "Location access required", {}, 0,
                     device_binding_df, attendance_new_df)
        ELSE IF distance > ALLOWED_RADIUS_METERS
        THEN Outcome(FALSE, "Location Error", {}, distance,
                     device_binding_df, attendance_new_df)
        ELSE IF other_device(binding, device_id)
        THEN Outcome(FALSE, "Device Mismatch", {}, 0,
                     device_binding_df, attendance_new_df)
        ELSE IF already_marked(attendance_df, rollnumber, today_date_str) # <<>>
        THEN Outcome(FALSE, "Attendance already marked today", {}, 0,
                     bound_df, attendance_new_df)
        ELSE Outcome(TRUE, "Attendance marked successfully", {}, distance, bound_df,
                     Append(attendance_df,
                            LocatedEntry(rollnumber, studentname, today_date_str,
                                         user_pos, distance)))

\* app.py's mark_attendance_qr(rollnumber, studentname, branch): no trimming,
\* no location and no device step; the binding file is not touched
app_mark_attendance_qr(form, students_new_df, device_binding_df, attendance_new_df, today_date_str) ==
    IF student_record(students_new_df, form.rollnumber, form.studentname,
                      form.branch) = <<>>
    THEN Outcome(FALSE, "Student not found in the database", {}, 0,
                 device_binding_df, attendance_new_df)
    ELSE IF already_marked(attendance_new_df, form.rollnumber, today_date_str) # <<>>
    THEN Outcome(FALSE, "Attendance already marked today", {}, 0,
                 device_binding_df, attendance_new_df)
    ELSE Outcome(TRUE, "Attendance marked successfully", {}, 0, device_binding_df,
                 Append(app_ensure_attendance_new_schema(attendance_new_df),
                        Entry(form.rollnumber, form.studentname, today_date_str)))

\* --------------------------------------------------------------- page runs
NoMark == [called |-> FALSE, ok |-> FALSE, reason |-> "None", fields |-> {}, dist |-> 0]

Marked(res) == [called |-> TRUE, ok |-> res.ok, reason |-> res.reason,
                fields |-> res.fields, dist |-> res.dist]

\* the widget event a page run is started by ("load": none)
Click(widget, form, use_manual, pos, roll) ==
    [widget |-> widget, form |-> form, use_manual |-> use_manual, pos |-> pos,
     roll |-> roll]

NoForm == Student(<<>>, <<>>, <<>>)

Plain(widget) == Click(widget, NoForm, FALSE, 0, <<>>)

\* what a page run was started with (session, access parameter, widget
\* event, clock) and what it showed: the gate's (access_valid, error_msg) and,
\* when the run called mark_attendance_qr, its (success, message)
ReportOf(app, s, token, click, access, mark) ==
    [app |-> app, session |-> s, token |-> token, click |-> click, time |-> now,
     access |-> [ok |-> access.ok, reason |-> access.reason, age |-> access.age],
     mark |-> mark]

Report(s, token, click, access, mark) == ReportOf("app1", s, token, click, access, mark)

SetFlag(flag, s, v) == [flag EXCEPT ![s] = v]

\* main(), the part under "if not st.session_state.location_verified"
location_step(s, token, click, access) ==
    /\ show_location_form' =
           IF click.widget = "allow_location" THEN SetFlag(show_location_form, s, TRUE)
           ELSE show_location_form
    /\ location_verified' =
           IF /\ click.widget = "Verify Location"
              /\ show_location_form[s]
              /\ check_location_in_range(click.pos)
           THEN SetFlag(location_verified, s, TRUE)
           ELSE location_verified
    /\ last' = Report(s, token, click, access, NoMark)
    /\ UNCHANGED << location_requested, admin_logged_app1, files >>

\* a reset that empties the table
WithoutRollAll(df, roll) == <<>>

\* device_df[device_df['rollnumber'] != student_to_reset]
WithoutRoll(df, roll) == SelectSeq(df, LAMBDA row : row.rollnumber # roll)

\* the roll number typed, compared as typed with the column as stored
roll_exists(students_df, new_roll) ==
    \E i \in DOMAIN students_df :
        Lower(students_df[i].rollnumber) = Lower(new_roll)

\* the Add Student button of app1 and app12: the roster it leaves
add_student(students_df, form) ==
    IF roll_exists(students_df, form.rollnumber) THEN students_df
    ELSE Append(students_df, Student(Strip(form.rollnumber),
                                     Strip(form.studentname), Strip(form.branch)))

\* the Add QR Student button of app.py: the row is stored as typed
app_add_qr_student(students_new_df, form) ==
    IF roll_exists(students_new_df, form.rollnumber) THEN students_new_df
    ELSE Append(students_new_df, form)

\* qr_student_portal(): the form, then the admin section
qr_student_portal(s, token, click, access) ==
    LET form == click.form
        filled == form.rollnumber # <<>> /\ form.studentname # <<>> /\ form.branch # <<>>
        user_pos == IF click.use_manual THEN At(click.pos) ELSE At(COLLEGE_POSITION)
        res == mark_attendance_qr(form, user_pos, get_device_id(s), students_new,
                                  device_binding, attendance_new, today)
        marking == /\ click.widget = "qr_mark_attendance_button"
                   /\ location_requested[s]
                   /\ filled
        resetting == /\ click.widget = "reset_device_btn"
                     /\ admin_logged_app1[s]
                     /\ device_binding # <<>>
                     /\ click.roll # <<>>
        adding == /\ click.widget = "add_student_btn"
                  /\ admin_logged_app1[s]
                  /\ filled
        deleting == /\ click.widget = "delete_student_btn"
                    /\ admin_logged_app1[s]
                    /\ students_new # <<>>
                    /\ click.roll # <<>>
        clearing == /\ click.widget = "clear_attendance_btn"
                    /\ admin_logged_app1[s]
                    /\ attendance_new # <<>>
    IN  /\ location_requested' =
               IF click.widget = "enable_location_btn"
               THEN SetFlag(location_requested, s, TRUE)
               ELSE location_requested
        /\ admin_logged_app1' =
               IF click.widget = "admin_login_btn" /\ ~admin_logged_app1[s]
               THEN SetFlag(admin_logged_app1, s, TRUE)
               ELSE IF click.widget = "admin_logout_btn" /\ admin_logged_app1[s]
               THEN SetFlag(admin_logged_app1, s, FALSE)
               ELSE admin_logged_app1
        /\ device_binding' =
               IF marking THEN res.device_binding
               ELSE IF resetting THEN WithoutRoll(device_binding, click.roll)
               ELSE device_binding
        /\ attendance_new' = IF marking THEN res.attendance_new
                             ELSE IF clearing THEN <<>>
                             ELSE attendance_new
        /\ students_new' = IF adding THEN add_student(students_new, form)
                           ELSE IF deleting THEN WithoutRoll(students_new, click.roll)
                           ELSE students_new
        /\ last' = Report(s, token, click, access, IF marking THEN Marked(res) ELSE NoMark)
        /\ UNCHANGED << show_location_form, location_verified >>

\* main() showing the portal without the location step
main_unverified(s, token, click) ==
    LET access == check_qr_access(token, qr_access_granted[s], now)
    IN  IF ~access.ok
        THEN /\ last' = Report(s, token, click, access, NoMark)
             /\ UNCHANGED << standalone, now, today, unreadable, files, flags, admin_state, req >>
        ELSE /\ qr_access_granted' = SetFlag(qr_access_granted, s, access.grant)
             /\ qr_student_portal(s, token, click, access)
             /\ UNCHANGED << standalone, now, today, unreadable, admin_state, req >>

\* main(): one page run of session s, whose URL carries token
main(s, token, click) ==
    LET access == check_qr_access(token, qr_access_granted[s], now)
    IN  IF ~access.ok
        THEN /\ last' = Report(s, token, click, access, NoMark)      \* st.stop()
             /\ UNCHANGED << standalone, now, today, unreadable, files, flags, admin_state, req >>
        ELSE /\ qr_access_granted' = SetFlag(qr_access_granted, s, access.grant)
             /\ IF ~location_verified[s]
                THEN location_step(s, token, click, access)
                ELSE qr_student_portal(s, token, click, access)
             /\ UNCHANGED << standalone, now, today, unreadable, admin_state, req >>

\* ------------------------------------------------------------------ actions
\* a page is opened or reloaded
PageLoad(s, token) == main(s, token, Plain("load"))

ClickAllowLocation(s, token) ==
    /\ ~location_verified[s]
    /\ main(s, token, Plain("allow_location"))

ClickVerifyLocation(s, token, pos) ==
    /\ ~location_verified[s]
    /\ show_location_form[s]
    /\ main(s, token, Click("Verify Location", NoForm, FALSE, pos, <<>>))

ClickEnableLocation(s, token) ==
    /\ location_verified[s]
    /\ main(s, token, Plain("enable_location_btn"))

ClickMarkAttendance(s, token, form, use_manual, pos) ==
    /\ location_verified[s]
    /\ location_requested[s]
    /\ main(s, token, Click("qr_mark_attendance_button", form, use_manual, pos, <<>>))

ClickAdminLogin(s, token) ==
    /\ location_verified[s]
    /\ ~admin_logged_app1[s]
    /\ main(s, token, Plain("admin_login_btn"))

ClickAdminLogout(s, token) ==
    /\ location_verified[s]
    /\ admin_logged_app1[s]
    /\ main(s, token, Plain("admin_logout_btn"))

ClickResetDevice(s, token, roll) ==
    /\ location_verified[s]
    /\ admin_logged_app1[s]
    /\ \E i \in DOMAIN device_binding : device_binding[i].rollnumber = roll
    /\ main(s, token, Click("reset_device_btn", NoForm, FALSE, 0, roll))

\* the admin section of app1: Manage Students and View Attendance
ClickAddStudent(s, token, form) ==
    /\ location_verified[s]
    /\ admin_logged_app1[s]
    /\ Len(students_new) < MaxRoster
    /\ main(s, token, Click("add_student_btn", form, FALSE, 0, <<>>))

ClickRemoveStudent(s, token, roll) ==
    /\ location_verified[s]
    /\ admin_logged_app1[s]
    /\ \E i \in DOMAIN students_new : students_new[i].rollnumber = roll
    /\ main(s, token, Click("delete_student_btn", NoForm, FALSE, 0, roll))

ClickClearAttendance(s, token) ==
    /\ location_verified[s]
    /\ admin_logged_app1[s]
    /\ attendance_new # <<>>
    /\ main(s, token, Plain("clear_attendance_btn"))

\* ------------------------------------------------------- app.py: QR portal
\* app.py main() with ?mode=qr_portal: qr_student_portal(), the Mark
\* Attendance button; the page has no access gate
AppMarkAttendance(form) ==
    LET filled == form.rollnumber # <<>> /\ form.studentname # <<>> /\ form.branch # <<>>
        res == app_mark_attendance_qr(form, students_new, device_binding,
                                      attendance_new, today)
    IN  /\ attendance_new' = IF filled THEN res.attendance_new ELSE attendance_new
        /\ last' = ReportOf("app", "D1", NoAccess,
                            Click("qr_mark_attendance_button", form, FALSE, 0, <<>>),
                            Access(TRUE, "None", 0, TRUE),
                            IF filled THEN Marked(res) ELSE NoMark)
        /\ UNCHANGED << standalone, now, today, unreadable, students_new, device_binding, flags, admin_state, req >>

\* app.py admin_panel(), QR tab: the Add QR Student button
AppAddQrStudent(form) ==
    /\ Len(students_new) < MaxRoster
    /\ form.rollnumber # <<>> /\ form.studentname # <<>> /\ form.branch # <<>>
    /\ students_new' = app_add_qr_student(students_new, form)
    /\ UNCHANGED << standalone, now, today, unreadable, attendance_new, device_binding, flags, admin_state, req, last >>

\* ---------------------------------------------------- app12: admin console
\* admin_panel(), Manage Students tab: the Add Student button
AddStudent(form) ==
    /\ admin_logged
    /\ Len(students_new) < MaxRoster
    /\ form.rollnumber # <<>> /\ form.studentname # <<>> /\ form.branch # <<>>
    /\ students_new' = add_student(students_new, form)
    /\ UNCHANGED << standalone, now, today, unreadable, attendance_new, device_binding, flags, admin_state, req, last >>

\* admin_panel(), Manage Students tab: the Remove button
RemoveStudent(to_delete) ==
    /\ admin_logged
    /\ to_delete # <<>>
    /\ \E i \in DOMAIN students_new : students_new[i].rollnumber = to_delete
    /\ students_new' = WithoutRoll(students_new, to_delete)
    /\ UNCHANGED << standalone, now, today, unreadable, attendance_new, device_binding, flags, admin_state, req, last >>

\* admin_login(): the Login button with the configured credentials
AdminLogin ==
    /\ ~admin_logged
    /\ admin_logged' = TRUE
    /\ UNCHANGED << standalone, now, today, unreadable, files, flags, qr_state, req, last >>

\* admin_panel(), Device Bindings tab: the Unbind Device button
UnbindDevice(to_unbind) ==
    /\ admin_logged
    /\ device_binding # <<>>
    /\ to_unbind # <<>>
    /\ \E i \in DOMAIN device_binding : device_binding[i].rollnumber = to_unbind
    /\ device_binding' = WithoutRoll(device_binding, to_unbind)
    /\ UNCHANGED << standalone, now, today, unreadable, students_new, attendance_new, flags, admin_state, req, last >>

\* admin_panel(), Active QR Code: what the page shows at current_time
qr_panel(active, generated_time, current_time) ==
    LET time_elapsed == current_time - generated_time
        time_remaining == 20 - time_elapsed
    IN  IF ~active THEN "None"
        ELSE IF time_remaining > 0 THEN "QR Code Active"
        ELSE "QR Code Expired"

\* admin_panel(): the Generate New QR Code button, generate_qr_code()
GenerateQr ==
    /\ admin_logged
    /\ qr_code_active' = TRUE
    /\ qr_generated_time' = now
    /\ qr_log' = qr_log \cup {now}
    /\ UNCHANGED << standalone, now, today, unreadable, files, flags, admin_logged, req, last >>

\* admin_panel(): the Clear QR Code button under the active QR code
ClearQr ==
    /\ admin_logged
    /\ qr_code_active
    /\ qr_code_active' = FALSE
    /\ UNCHANGED << standalone, now, today, unreadable, files, flags, admin_logged, qr_generated_time, qr_log, req, last >>

\* ------------------------------------------------------------- CSV loaders
STUDENTS_NEW_CSV == "students_new.csv"
ATTENDANCE_NEW_CSV == "attendance_new.csv"
DEVICE_BINDING_CSV == "device_binding.csv"
StoreFiles == {STUDENTS_NEW_CSV, ATTENDANCE_NEW_CSV, DEVICE_BINDING_CSV}

\* what a loader does: it returns the frame read, or it writes an empty file
\* with the expected columns and returns the empty frame, or the exception of
\* pd.read_csv leaves it
Loaded(df) == [raised |-> FALSE, recreated |-> FALSE, df |-> df]
Recreated == [raised |-> FALSE, recreated |-> TRUE, df |-> <<>>]
Raised == [raised |-> TRUE, recreated |-> FALSE, df |-> <<>>]

\* app1 load_students_new(): "except Exception" recreates the file
load_students_new ==
    IF STUDENTS_NEW_CSV \in unreadable THEN Recreated ELSE Loaded(students_new)

\* app1 load_attendance_new(): "except Exception" recreates the file
load_attendance_new ==
    IF ATTENDANCE_NEW_CSV \in unreadable THEN Recreated ELSE Loaded(attendance_new)

\* app1 load_device_binding(): only FileNotFoundError is caught
load_device_binding ==
    IF DEVICE_BINDING_CSV \in unreadable THEN Raised ELSE Loaded(device_binding)

\* app12 load_students_new(): only FileNotFoundError is caught
app12_load_students_new ==
    IF STUDENTS_NEW_CSV \in unreadable THEN Raised ELSE Loaded(students_new)

\* app12 load_attendance_new(): only FileNotFoundError is caught
app12_load_attendance_new ==
    IF ATTENDANCE_NEW_CSV \in unreadable THEN Raised ELSE Loaded(attendance_new)

\* app12 load_device_binding(): only FileNotFoundError is caught
app12_load_device_binding ==
    IF DEVICE_BINDING_CSV \in unreadable THEN Raised ELSE Loaded(device_binding)

\* the files pd.read_csv raises on once a loader has run
AfterLoad(loaded, name) == IF loaded.recreated THEN unreadable \ {name} ELSE unreadable

\* a CSV file is left empty or torn: a to_csv cut short, an edit by hand
Damage(name) ==
    /\ name \notin unreadable
    /\ unreadable' = unreadable \cup {name}
    /\ UNCHANGED << standalone, now, today, files, flags, admin_state, req, last >>

\* app12 admin_panel(): one run of the page, which loads the three files for
\* its tabs; an exception of a loader ends the run with a traceback
AdminPanel ==
    LET raised == \/ app12_load_students_new.raised
                  \/ app12_load_attendance_new.raised
                  \/ app12_load_device_binding.raised
    IN  /\ admin_logged
        /\ last' = ReportOf("app12", "D1", NoAccess, Plain("admin_panel"),
                            Access(TRUE, "None", 0, TRUE),
                            [NoMark EXCEPT !.reason = IF raised THEN "Traceback" ELSE "None"])
        /\ UNCHANGED << standalone, now, today, unreadable, files, flags, admin_state, req >>

\* ------------------------------------- mark_attendance_qr, file by file
\* The same function as mark_attendance_qr above, cut at every load and save
\* of a CSV file: Streamlit runs the script of each session in a thread of its
\* own, so the calls of two sessions interleave between these steps.
\* req[s]: where the call of session s is, the DataFrames it holds, what it
\* returned; raced: it passed the duplicate check while the call of another
\* session for the same roll number had passed it and not saved yet; pc is
\* "raised" when an exception ended the page run.
Idle ==
    [pc |-> "idle", form |-> NoForm, user_pos |-> NoLocation, device_binding_df |-> <<>>,
     attendance_new_df |-> <<>>, ok |-> FALSE, reason |-> "None", raced |-> FALSE]

Return(s, ok, reason) ==
    req' = [req EXCEPT ![s].pc = "returned", ![s].ok = ok, ![s].reason = reason]

\* the call up to the location check: load_students_new, the roster match
CallMark(s, form, user_pos) ==
    LET rollnumber == Strip(form.rollnumber)
        studentname == Strip(form.studentname)
        branch == Strip(form.branch)
        loaded == load_students_new
        roster == Trimmed(loaded.df)
        started == [Idle EXCEPT !.form = Student(rollnumber, studentname, branch),
                                !.user_pos = user_pos]
    IN  /\ req[s].pc \in {"idle", "returned", "raised"}
        /\ location_requested[s]
        /\ req' = [req EXCEPT ![s] =
               IF student_record(roster, rollnumber, studentname, branch) = <<>>
               THEN [started EXCEPT !.pc = "returned",
                                    !.reason = "Student not found in the database"]
               ELSE IF user_pos = NoLocation
               THEN [started EXCEPT !.pc = "returned",
                                    !.reason = "Location access required"]
               ELSE IF calculate_distance(COLLEGE_POSITION, user_pos[1])
                          > ALLOWED_RADIUS_METERS
               THEN [started EXCEPT !.pc = "returned", !.reason = "Location Error"]
               ELSE [started EXCEPT !.pc = "load_device_binding"]]
        /\ students_new' = loaded.df
        /\ unreadable' = AfterLoad(loaded, STUDENTS_NEW_CSV)
        /\ UNCHANGED << standalone, now, today, attendance_new, device_binding, flags, admin_state, last >>

\* load_device_binding() and the comparison with this session's device
LoadDeviceBinding(s) ==
    LET rollnumber == req[s].form.rollnumber
        loaded == load_device_binding
        binding == existing_binding(loaded.df, rollnumber)
    IN  /\ req[s].pc = "load_device_binding"
        /\ IF loaded.raised
           THEN req' = [req EXCEPT ![s].pc = "raised", ![s].reason = "Traceback"]
           ELSE IF other_device(binding, get_device_id(s))
           THEN Return(s, FALSE, "Device Mismatch")
           ELSE IF binding = <<>>
           THEN req' = [req EXCEPT
                    ![s].pc = "save_device_binding",
                    ![s].device_binding_df =
                        Append(loaded.df, Binding(rollnumber, get_device_id(s)))]
           ELSE req' = [req EXCEPT ![s].pc = "load_attendance_new",
                                   ![s].device_binding_df = loaded.df]
        /\ UNCHANGED << standalone, now, today, unreadable, files, flags, admin_state, last >>

\* save_device_binding(device_binding_df): the whole file is rewritten
SaveDeviceBinding(s) ==
    /\ req[s].pc = "save_device_binding"
    /\ device_binding' = req[s].device_binding_df
    /\ unreadable' = unreadable \ {DEVICE_BINDING_CSV}
    /\ req' = [req EXCEPT ![s].pc = "load_attendance_new"]
    /\ UNCHANGED << standalone, now, today, students_new, attendance_new, flags, admin_state, last >>

\* the sessions whose call holds a ledger it has found no row of this roll
\* number in and has not saved yet
Unsaved(s, rollnumber) ==
    {o \in Sessions \ {s} : /\ req[o].pc = "save_attendance_new"
                            /\ Lower(req[o].form.rollnumber) = Lower(rollnumber)}

\* load_attendance_new(), the duplicate check, the new row
LoadAttendanceNew(s) ==
    LET rollnumber == req[s].form.rollnumber
        racing == Unsaved(s, rollnumber)
        loaded == load_attendance_new
        attendance_df == ensure_attendance_new_schema(loaded.df)
        distance == calculate_distance(COLLEGE_POSITION, req[s].user_pos[1])
    IN  /\ req[s].pc = "load_attendance_new"
        /\ IF already_marked(attendance_df, rollnumber, today) # <<>>
           THEN Return(s, FALSE, "Attendance already marked today")
           ELSE req' = [o \in Sessions |->
                    IF o = s
                    THEN [req[s] EXCEPT
                             !.pc = "save_attendance_new",
                             !.attendance_new_df =
                                 Append(attendance_df,
                                        LocatedEntry(rollnumber, req[s].form.studentname,
                                                     today, req[s].user_pos, distance)),
                             !.raced = (racing # {})]
                    ELSE IF o \in racing THEN [req[o] EXCEPT !.raced = TRUE]
                    ELSE req[o]]
        /\ attendance_new' = loaded.df
        /\ unreadable' = AfterLoad(loaded, ATTENDANCE_NEW_CSV)
        /\ UNCHANGED << standalone, now, today, students_new, device_binding, flags, admin_state, last >>

\* save_attendance_new as an append to the file
SaveAttendanceNewAppend(s) ==
    /\ req[s].pc = "save_attendance_new"
    /\ attendance_new' =
           Append(attendance_new,
                  req[s].attendance_new_df[Len(req[s].attendance_new_df)])
    /\ Return(s, TRUE, "Attendance marked successfully")
    /\ UNCHANGED << standalone, now, today, unreadable, students_new, device_binding, flags, admin_state, last >>

\* save_attendance_new(attendance_new_df): the whole file is rewritten
SaveAttendanceNew(s) ==
    /\ req[s].pc = "save_attendance_new"
    /\ attendance_new' = req[s].attendance_new_df
    /\ unreadable' = unreadable \ {ATTENDANCE_NEW_CSV}
    /\ Return(s, TRUE, "Attendance marked successfully")
    /\ UNCHANGED << standalone, now, today, students_new, device_binding, flags, admin_state, last >>

\* ------------------------------------------------- calculate_distance alone
\* the points measured: the campus, points around it and at the radius
DistancePoints == (-6..6) \cup {-501, -500, 500, 501}

\* calculate_distance is called for two points, and for the same two swapped
Measure(p, q) ==
    /\ measured' = [p1 |-> p, p2 |-> q,
                    there |-> calculate_distance(p, q),
                    back |-> calculate_distance(q, p)]
    /\ UNCHANGED << attendance, mark_call, otp_state, hf, now, qr_flow >>

\* ------------------------------------------------- app.py: the username flow
\* students.csv: the usernames of its rows
students_csv == {"asha", "ravi"}

\* the usernames typed into the student dashboard
Usernames == {"asha", "ravi", "zed"}

\* new_entry of mark_attendance
AttendanceEntry(username, college, level, d) ==
    [date |-> d, username |-> username, college |-> college, level |-> level]

\* has_marked_attendance_today(username) on the file as it is read
has_marked_attendance_today(attendance_df, username, today_date_str) ==
    \E i \in DOMAIN attendance_df :
        /\ attendance_df[i].username = username
        /\ attendance_df[i].date = today_date_str

\* mark_attendance(username, college, level) run without interruption
mark_attendance(attendance_df, username, college, level, today_date_str) ==
    IF username \notin students_csv
    THEN [ok |-> FALSE, reason |-> "Username not found", attendance |-> attendance_df]
    ELSE IF has_marked_attendance_today(attendance_df, username, today_date_str)
    THEN [ok |-> FALSE, reason |-> "Attendance already marked today",
          attendance |-> attendance_df]
    ELSE [ok |-> TRUE, reason |-> "Attendance marked successfully",
          attendance |-> Append(attendance_df,
                                AttendanceEntry(username, college, level, today_date_str))]

\* mark_call[s]: where the mark_attendance call of session s is, its arguments,
\* the DataFrame it holds and what it returned
NotCalled ==
    [pc |-> "idle", username |-> "", college |-> "", level |-> "", df |-> <<>>,
     ok |-> FALSE, reason |-> "None"]

MarkReturn(s, ok, reason) ==
    mark_call' = [mark_call EXCEPT ![s].pc = "returned", ![s].ok = ok, ![s].reason = reason]

\* the call: load_students() and the username test
CallMarkAttendance(s, username, college, level) ==
    LET started == [NotCalled EXCEPT !.username = username, !.college = college,
                                     !.level = level]
    IN  /\ mark_call[s].pc \in {"idle", "returned"}
        /\ mark_call' = [mark_call EXCEPT ![s] =
               IF username \notin students_csv
               THEN [started EXCEPT !.pc = "returned", !.reason = "Username not found"]
               ELSE [started EXCEPT !.pc = "has_marked_attendance_today"]]
        /\ UNCHANGED << measured, attendance, otp_state, hf, now, qr_flow >>

\* has_marked_attendance_today(username): its own load_attendance()
HasMarkedAttendanceToday(s) ==
    /\ mark_call[s].pc = "has_marked_attendance_today"
    /\ IF has_marked_attendance_today(attendance, mark_call[s].username, today)
       THEN MarkReturn(s, FALSE, "Attendance already marked today")
       ELSE mark_call' = [mark_call EXCEPT ![s].pc = "load_attendance"]
    /\ UNCHANGED << measured, attendance, otp_state, hf, now, qr_flow >>

\* df = load_attendance(), the second read of the file
LoadAttendance(s) ==
    /\ mark_call[s].pc = "load_attendance"
    /\ mark_call' = [mark_call EXCEPT ![s].pc = "save_attendance", ![s].df = attendance]
    /\ UNCHANGED << measured, attendance, otp_state, hf, now, qr_flow >>

\* pd.concat([df, new_entry]) and save_attendance(df): the file is rewritten
SaveAttendance(s) ==
    /\ mark_call[s].pc = "save_attendance"
    /\ attendance' = Append(mark_call[s].df,
                            AttendanceEntry(mark_call[s].username, mark_call[s].college,
                                            mark_call[s].level, today))
    /\ MarkReturn(s, TRUE, "Attendance marked successfully")
    /\ UNCHANGED << measured, otp_state, hf, now, qr_flow >>

\* ------------------------------------------------------- app.py: the OTP
OTP_VALIDITY_MINUTES == 5

\* the codes random.choices draws, and what a student types
OtpCodes == {"111111", "222222"}

\* a dict without the key
Del(d, key) == [k \in DOMAIN d \ {key} |-> d[k]]

\* a dict with the key set
Put(d, key, value) == [k \in DOMAIN d \cup {key} |-> IF k = key THEN value ELSE d[k]]

\* send_otp(username) drawing otp: the otp_store it leaves
send_otp(store, username, otp, t) ==
    Put(store, username, [otp |-> otp, expiry |-> t + OTP_VALIDITY_MINUTES * 60])

\* verify_otp leaving the record of a verified OTP in the store
verify_otp_kept(store, username, input_otp, t) ==
    IF username \notin DOMAIN store
    THEN [ok |-> FALSE, reason |-> "No OTP sent", store |-> store]
    ELSE IF t > store[username].expiry
    THEN [ok |-> FALSE, reason |-> "OTP expired", store |-> Del(store, username)]
    ELSE IF input_otp = store[username].otp
    THEN [ok |-> TRUE, reason |-> "OTP verified successfully", store |-> store]
    ELSE [ok |-> FALSE, reason |-> "Incorrect OTP", store |-> store]

\* verify_otp(username, input_otp) at time t: (ok, message) and the store
verify_otp(store, username, input_otp, t) ==
    IF username \notin DOMAIN store
    THEN [ok |-> FALSE, reason |-> "No OTP sent", store |-> store]
    ELSE IF t > store[username].expiry
    THEN [ok |-> FALSE, reason |-> "OTP expired", store |-> Del(store, username)]
    ELSE IF input_otp = store[username].otp
    THEN [ok |-> TRUE, reason |-> "OTP verified successfully",
          store |-> Del(store, username)]
    ELSE [ok |-> FALSE, reason |-> "Incorrect OTP", store |-> store]

\* no Verify OTP click yet
NoVerify ==
    [session |-> "None", username |-> "", ok |-> FALSE, reason |-> "None"]

\* student_dashboard(): the Send OTP button, with the details filled in and
\* the access code entered
ClickSendOtp(s, username, otp) ==
    LET pending == /\ username \in DOMAIN otp_store[s]
                   /\ now < otp_store[s][username].expiry
    IN  /\ ~pending        \* else the page only says an OTP is still valid
        /\ otp_store' = [otp_store EXCEPT ![s] = send_otp(otp_store[s], username, otp, now)]
        /\ otp_sent' = [otp_sent EXCEPT ![s] =
               Put(otp_sent[s], username, [otp |-> otp, at |-> now, successes |-> 0])]
        /\ UNCHANGED << measured, attendance, mark_call, student_logged_in_username,
                        otp_result, hf, now, qr_flow >>

\* student_dashboard(): the Verify OTP & Mark Attendance button
ClickVerifyOtp(s, username, input_otp, college, level) ==
    LET verified == verify_otp(otp_store[s], username, input_otp, now)
        marked == mark_attendance(attendance, username, college, level, today)
        logged_in == marked.ok \/ marked.reason = "Attendance already marked today"
    IN  /\ otp_store' = [otp_store EXCEPT ![s] = verified.store]
        /\ attendance' = IF verified.ok THEN marked.attendance ELSE attendance
        /\ student_logged_in_username' =
               IF verified.ok /\ logged_in
               THEN [student_logged_in_username EXCEPT ![s] = username]
               ELSE student_logged_in_username
        /\ otp_sent' =
               IF verified.ok /\ username \in DOMAIN otp_sent[s]
               THEN [otp_sent EXCEPT ![s][username].successes = @ + 1]
               ELSE otp_sent
        /\ otp_result' = [session |-> s, username |-> username,
                          ok |-> verified.ok, reason |-> verified.reason]
        /\ UNCHANGED << measured, mark_call, hf, now, qr_flow >>

\* a minute passes
Minute ==
    /\ now < StartTime + 60 * MaxMinute
    /\ now' = now + 60
    /\ UNCHANGED << standalone, qr_flow >>

\* ------------------------------------- app.py: query_huggingface_model
DEFAULT_HF_INSTRUCTION_MODEL == "instruction model"
DEFAULT_HF_SUMMARIZATION_MODEL == "summarization model"

\* the model_id arguments
ModelIds == {DEFAULT_HF_INSTRUCTION_MODEL, DEFAULT_HF_SUMMARIZATION_MODEL, "other model"}

\* what one requests.post can come to:
\*   generated_text, summary_text, text : a list whose first item is a dict
\*                     with that key
\*   echoed prompt   : generated_text, stripped, equal to the stripped prompt
\*   other item      : a list whose first item has none of the keys
\*   error payload   : a dict with the key "error"
\*   other payload   : any other JSON of a 2xx answer: an empty list, a dict
\*                     without "error", a string, a number, null
\*   timeout, http error, exception : what the call or raise_for_status raises
Responses ==
    {"generated_text", "summary_text", "text", "echoed prompt", "other item",
     "error payload", "other payload", "timeout", "http error", "exception"}

\* local_fallback_instruction: the pipeline's text, or "" without a pipeline
\* or when it raises
local_fallback_instruction(pipe_ok) == IF pipe_ok THEN "local instruction text" ELSE ""

\* local_fallback_summary: likewise
local_fallback_summary(pipe_ok) == IF pipe_ok THEN "local summary text" ELSE ""

\* the statements after the loop
fallback(model_id, pipe_ok) ==
    IF model_id = DEFAULT_HF_INSTRUCTION_MODEL THEN local_fallback_instruction(pipe_ok)
    ELSE IF model_id = DEFAULT_HF_SUMMARIZATION_MODEL THEN local_fallback_summary(pipe_ok)
    ELSE ""

\* what the body of the loop does with a response in iteration attempt
loop_body(response, attempt, retries) ==
    CASE response \in {"generated_text", "summary_text", "text", "other item"} -> "return"
      [] response = "echoed prompt" -> "break"
      [] response = "error payload" -> "break"
      [] response = "other payload" -> "next"
      [] response = "timeout" -> IF attempt < retries - 1 THEN "next" ELSE "break"
      [] response = "http error" -> "break"
      [] response = "exception" -> "break"

\* no call yet
NoQuery ==
    [pc |-> "idle", model_id |-> "None", retries |-> 0, attempt |-> 0, posts |-> 0,
     response |-> "None", result |-> "None"]

\* query_huggingface_model(prompt, model_id=model_id, retries=retries) is
\* called; with retries = 0 the loop has no iteration
CallQuery(model_id, retries, pipe_ok) ==
    /\ hf.pc \in {"idle", "returned"}
    /\ hf' = IF retries > 0
             THEN [pc |-> "loop", model_id |-> model_id, retries |-> retries,
                   attempt |-> 0, posts |-> 0, response |-> "None", result |-> "None"]
             ELSE [pc |-> "returned", model_id |-> model_id, retries |-> retries,
                   attempt |-> 0, posts |-> 0, response |-> "None",
                   result |-> fallback(model_id, pipe_ok)]
    /\ UNCHANGED << measured, attendance, mark_call, otp_state, now, qr_flow >>

\* one iteration of the loop: the request is posted and comes to response;
\* the function returns from the body, or leaves the loop and returns the
\* fallback, or goes on to the next iteration
Post(response, pipe_ok) ==
    /\ hf.pc = "loop"
    /\ LET did == loop_body(response, hf.attempt, hf.retries)
           more == hf.attempt + 1 < hf.retries
       IN  hf' = [hf EXCEPT
                    !.posts = @ + 1,
                    !.response = response,
                    !.attempt = IF did = "next" THEN @ + 1 ELSE @,
                    !.pc = IF did = "next" /\ more THEN "loop" ELSE "returned",
                    !.result = IF did = "return" THEN "remote " \o response
                               ELSE IF did = "next" /\ more THEN "None"
                               ELSE fallback(hf.model_id, pipe_ok)]
    /\ UNCHANGED << measured, attendance, mark_call, otp_state, now, qr_flow >>

\* ------------------------------------------------------------------- clock
\* the clock advances by a second
Tick ==
    /\ now < StartTime + MaxTick
    /\ now' = now + 1
    /\ UNCHANGED << standalone, today, unreadable, files, flags, admin_state, req, last >>

\* midnight passes
NextDay ==
    /\ today < MaxDay
    /\ today' = today + 1
    /\ UNCHANGED << standalone, now, unreadable, files, flags, admin_state, req, last >>

\* an hour passes
Hour ==
    /\ now <= StartTime + MaxTick
    /\ now' = now + 3600
    /\ UNCHANGED << standalone, today, unreadable, files, flags, admin_state, req, last >>

\* ------------------------------------------------------------ specifications
\* nothing measured yet
InitStandalone ==
    /\ measured = [p1 |-> 0, p2 |-> 0, there |-> 0, back |-> 0]
    /\ attendance = <<>>
    /\ mark_call = [s \in Sessions |-> NotCalled]
    /\ otp_store = [s \in Sessions |-> << >>]
    /\ student_logged_in_username = [s \in Sessions |-> "None"]
    /\ otp_sent = [s \in Sessions |-> << >>]
    /\ otp_result = NoVerify
    /\ hf = NoQuery

AllFalse == [s \in Sessions |-> FALSE]
AllTrue == [s \in Sessions |-> TRUE]

\* the state after the three apps were deployed with the uploaded roster
Init ==
    /\ now = StartTime
    /\ today = 0
    /\ students_new = Roster
    /\ attendance_new = <<>>
    /\ device_binding = <<>>
    /\ unreadable = {}
    /\ InitStandalone
    /\ qr_access_granted = AllFalse
    /\ location_verified = AllFalse
    /\ show_location_form = AllFalse
    /\ location_requested = AllFalse
    /\ admin_logged_app1 = AllFalse
    /\ admin_logged = FALSE
    /\ qr_code_active = FALSE
    /\ qr_generated_time = None
    /\ qr_log = {}
    /\ req = [s \in Sessions |-> Idle]
    /\ last = Report("D1", NoAccess, Plain("load"), Access(FALSE, "None", 0, FALSE), NoMark)

BoundRolls == {device_binding[i].rollnumber : i \in DOMAIN device_binding}

\* one device, from the scan of the QR code to the check-in, over several days
Next ==
    \/ \E token \in Tokens(now) : PageLoad("D1", token)
    \/ \E token \in ClickTokens(now) : ClickAllowLocation("D1", token)
    \/ \E token \in ClickTokens(now), pos \in VerifyPositions :
           ClickVerifyLocation("D1", token, pos)
    \/ \E token \in ClickTokens(now) : ClickEnableLocation("D1", token)
    \/ \E token \in ClickTokens(now), form \in Forms :
           \/ ClickMarkAttendance("D1", token, form, FALSE, 0)
           \/ \E pos \in Positions : ClickMarkAttendance("D1", token, form, TRUE, pos)
    \/ \E token \in ClickTokens(now) : ClickAdminLogin("D1", token)
    \/ \E token \in ClickTokens(now) : ClickAdminLogout("D1", token)
    \/ \E token \in ClickTokens(now), roll \in BoundRolls :
           ClickResetDevice("D1", token, roll)
    \/ \E form \in AppForms : AppMarkAttendance(form)
    \/ NextDay

Spec == Init /\ [][Next]_vars

\* the access gate and the location step of every session, as time passes
NextGate ==
    \/ \E s \in Sessions, token \in Tokens(now) : PageLoad(s, token)
    \/ \E s \in Sessions, token \in ClickTokens(now) : ClickAllowLocation(s, token)
    \/ \E s \in Sessions, token \in ClickTokens(now), pos \in VerifyPositions :
           ClickVerifyLocation(s, token, pos)
    \/ Tick

SpecGate == Init /\ [][NextGate]_vars

\* two devices whose sessions have reached the attendance form
InitDevices ==
    /\ now = StartTime
    /\ today = 0
    /\ students_new = Roster
    /\ attendance_new = <<>>
    /\ device_binding = <<>>
    /\ unreadable = {}
    /\ InitStandalone
    /\ qr_access_granted = AllTrue
    /\ location_verified = AllTrue
    /\ show_location_form = AllTrue
    /\ location_requested = AllTrue
    /\ admin_logged_app1 = AllFalse
    /\ admin_logged = FALSE
    /\ qr_code_active = FALSE
    /\ qr_generated_time = None
    /\ qr_log = {}
    /\ req = [s \in Sessions |-> Idle]
    /\ last = Report("D1", NoAccess, Plain("load"), Access(TRUE, "None", 0, TRUE), NoMark)

NextDevices ==
    \/ \E s \in Sessions, token \in DeviceTokens(now), form \in DeviceForms :
           \/ ClickMarkAttendance(s, token, form, FALSE, 0)
           \/ ClickMarkAttendance(s, token, form, TRUE, 501)
    \/ AdminLogin
    \/ \E roll \in BoundRolls : UnbindDevice(roll)

SpecDevices == InitDevices /\ [][NextDevices]_vars

\* the three consoles with their admins logged in, the sessions at the form
InitAdmin ==
    /\ now = StartTime
    /\ today = 0
    /\ students_new = Roster
    /\ attendance_new = <<>>
    /\ device_binding = <<>>
    /\ unreadable = {}
    /\ InitStandalone
    /\ qr_access_granted = AllTrue
    /\ location_verified = AllTrue
    /\ show_location_form = AllTrue
    /\ location_requested = AllTrue
    /\ admin_logged_app1 = AllTrue
    /\ admin_logged = TRUE
    /\ qr_code_active = FALSE
    /\ qr_generated_time = None
    /\ qr_log = {}
    /\ req = [s \in Sessions |-> Idle]
    /\ last = Report("D1", NoAccess, Plain("load"), Access(TRUE, "None", 0, TRUE), NoMark)

\* what an admin types into the Add Student inputs
RosterForms ==
    { Student(<<"a", "1">>, Ann, CSE),
      Student(<<" ", "A", "1">>, Eve, CSE),
      Student(B9, Eve, ECE) }

RosterRolls == {students_new[i].rollnumber : i \in DOMAIN students_new}

\* the roster edited from the three consoles
NextRoster ==
    \/ \E form \in RosterForms : ClickAddStudent("D1", NoAccess, form)
    \/ \E form \in RosterForms : AddStudent(form)
    \/ \E form \in RosterForms : AppAddQrStudent(form)
    \/ \E roll \in RosterRolls : ClickRemoveStudent("D1", NoAccess, roll)
    \/ \E roll \in RosterRolls : RemoveStudent(roll)

SpecRoster == InitAdmin /\ [][NextRoster]_vars

\* what two students type while the admins work
AdminCheckForms == {Student(A1, Ann, CSE), Student(A2, Bob, CSE)}

\* check-ins of two devices on one day, with the roster edited, devices
\* unbound and the ledger cleared from the consoles
NextAdmin ==
    \/ \E s \in Sessions, form \in AdminCheckForms :
           ClickMarkAttendance(s, NoAccess, form, FALSE, 0)
    \/ \E form \in AdminCheckForms : AppMarkAttendance(form)
    \/ ClickAddStudent("D1", NoAccess, Student(B9, Eve, ECE))
    \/ AddStudent(Student(B9, Eve, ECE))
    \/ \E roll \in RosterRolls : ClickRemoveStudent("D1", NoAccess, roll)
    \/ \E roll \in RosterRolls : RemoveStudent(roll)
    \/ \E roll \in BoundRolls : ClickResetDevice("D1", NoAccess, roll)
    \/ \E roll \in BoundRolls : UnbindDevice(roll)
    \/ ClickClearAttendance("D1", NoAccess)

SpecAdmin == InitAdmin /\ [][NextAdmin]_vars

\* what is typed at the fence
FenceForms == {Student(A1, Ann, CSE), Student(A2, Bob, CSE), Student(B9, Ann, CSE)}

\* one device at the attendance form on one day, checking in from around the
\* radius
NextFence ==
    \/ \E form \in FenceForms :
           \/ ClickMarkAttendance("D1", NoAccess, form, FALSE, 0)
           \/ \E pos \in FencePositions :
                  ClickMarkAttendance("D1", NoAccess, form, TRUE, pos)

SpecFence == InitDevices /\ [][NextFence]_vars

\* the check-ins of two sessions, interleaved between the loads and saves
\* the admin has had a QR code on the screen for 5 or for 19 seconds
InitIssuer ==
    /\ now = StartTime
    /\ today = 0
    /\ students_new = Roster
    /\ attendance_new = <<>>
    /\ device_binding = <<>>
    /\ unreadable = {}
    /\ InitStandalone
    /\ qr_access_granted = AllFalse
    /\ location_verified = AllFalse
    /\ show_location_form = AllFalse
    /\ location_requested = AllFalse
    /\ admin_logged_app1 = AllFalse
    /\ admin_logged = TRUE
    /\ qr_code_active = TRUE
    /\ qr_generated_time \in {StartTime - 5, StartTime - 19}
    /\ qr_log = {qr_generated_time}
    /\ req = [s \in Sessions |-> Idle]
    /\ last = Report("D1", NoAccess, Plain("load"), Access(FALSE, "None", 0, FALSE), NoMark)

\* the access parameters tried against the issuer: tokens of the usual ages
\* and every token the admin has generated
IssuerTokens(t) == {NoAccess} \cup WellFormedTokens(t) \cup {QrToken(t0) : t0 \in qr_log}

\* the admin generates and clears QR codes while students open the portal
NextIssuer ==
    \/ GenerateQr
    \/ ClearQr
    \/ \E s \in Sessions, token \in IssuerTokens(now) : PageLoad(s, token)
    \/ Tick

SpecIssuer == InitIssuer /\ [][NextIssuer]_vars

\* the check-ins of a device and the admin's page of app12 while CSV files
\* get damaged
NextStore ==
    \/ \E name \in StoreFiles : Damage(name)
    \/ \E form \in AdminCheckForms : CallMark("D1", form, At(COLLEGE_POSITION))
    \/ LoadDeviceBinding("D1")
    \/ SaveDeviceBinding("D1")
    \/ LoadAttendanceNew("D1")
    \/ SaveAttendanceNew("D1")
    \/ AdminPanel

SpecStore == InitAdmin /\ [][NextStore]_vars

\* the widget events a page run of app1 can be started by, whatever the page
\* showed before
SessionClicks ==
    { Plain("load"),
      Plain("allow_location"),
      Click("Verify Location", NoForm, FALSE, 0, <<>>),
      Click("Verify Location", NoForm, FALSE, 501, <<>>),
      Plain("enable_location_btn"),
      Click("qr_mark_attendance_button", Student(A1, Ann, CSE), FALSE, 0, <<>>),
      Click("qr_mark_attendance_button", Student(A2, Bob, CSE), FALSE, 0, <<>>),
      Plain("admin_login_btn"),
      Plain("admin_logout_btn"),
      Click("reset_device_btn", NoForm, FALSE, 0, A1),
      Plain("clear_attendance_btn") }

\* the URLs of SpecSession: no token, a fresh one, one at the end of its
\* window, one a second past it, and a parameter without the prefix
SessionTokens(t) ==
    {NoAccess, QrToken(t), QrToken(t - 20), QrToken(t - 21), <<"x">> \o Dec(t)}

\* one session from its first page to the check-in, as time passes
NextSession ==
    \/ \E token \in SessionTokens(now), click \in SessionClicks : main("D1", token, click)
    \/ Tick
    \/ Hour

SpecSession == Init /\ [][NextSession]_vars

\* the mark_attendance calls of two sessions of app.py, interleaved
NextUsername ==
    \/ \E s \in Sessions, username \in Usernames : CallMarkAttendance(s, username, "GEC", "L1")
    \/ \E s \in Sessions : HasMarkedAttendanceToday(s)
    \/ \E s \in Sessions : LoadAttendance(s)
    \/ \E s \in Sessions : SaveAttendance(s)

SpecUsername == Init /\ [][NextUsername]_vars

\* who asks for an OTP where: one student in two browser sessions
OtpUsers == {<< "D1", "asha" >>, << "D2", "asha" >>}

\* app.py's student dashboard, minute by minute
NextOtp ==
    \/ \E su \in OtpUsers, otp \in OtpCodes : ClickSendOtp(su[1], su[2], otp)
    \/ \E su \in OtpUsers, input_otp \in OtpCodes :
           ClickVerifyOtp(su[1], su[2], input_otp, "GEC", "L1")
    \/ Minute

SpecOtp == Init /\ [][NextOtp]_vars

\* calls of query_huggingface_model, one after the other
NextQuery ==
    \/ \E model_id \in ModelIds, retries \in 0..MaxRetries, pipe_ok \in BOOLEAN :
           CallQuery(model_id, retries, pipe_ok)
    \/ \E response \in Responses, pipe_ok \in BOOLEAN : Post(response, pipe_ok)

SpecQuery == Init /\ [][NextQuery]_vars

\* distances between the points of the model
NextDistance == \E p \in DistancePoints, q \in DistancePoints : Measure(p, q)

SpecDistance == Init /\ [][NextDistance]_vars

\* the interleaved check-ins of two devices
NextRace ==
    \/ \E s \in Sessions, form \in DeviceForms,
          user_pos \in {At(COLLEGE_POSITION), At(501), NoLocation} :
           CallMark(s, form, user_pos)
    \/ \E s \in Sessions : LoadDeviceBinding(s)
    \/ \E s \in Sessions : SaveDeviceBinding(s)
    \/ \E s \in Sessions : LoadAttendanceNew(s)
    \/ \E s \in Sessions : SaveAttendanceNew(s)

SpecRace == InitDevices /\ [][NextRace]_vars

\* ------------------------------------------------------------------- claims
\* the timestamps a well-formed token of the model can carry
Stamps == (StartTime - 30)..(StartTime + MaxTick + 5)

\* what the checks of a check-in are about, stated on the files themselves
TypedRoll(form) == Strip(form.rollnumber)

OnRoster(form) ==
    \E i \in DOMAIN students_new :
        /\ Lower(Strip(students_new[i].rollnumber)) = Lower(Strip(form.rollnumber))
        /\ Lower(Strip(students_new[i].studentname)) = Lower(Strip(form.studentname))
        /\ Lower(Strip(students_new[i].branch)) = Lower(Strip(form.branch))

\* app.py compares the inputs as typed with the cells as stored
OnRosterAsTyped(form) ==
    \E i \in DOMAIN students_new :
        /\ Lower(students_new[i].rollnumber) = Lower(form.rollnumber)
        /\ Lower(students_new[i].studentname) = Lower(form.studentname)
        /\ Lower(students_new[i].branch) = Lower(form.branch)

InsideRadius(use_manual, pos) == ~use_manual \/ Abs(pos) <= 500

BoundElsewhere(roll, device) ==
    \E i \in DOMAIN device_binding :
        /\ Lower(device_binding[i].rollnumber) = Lower(roll)
        /\ device_binding[i].device_id # device

BoundToAnother(device, roll) ==
    \E i \in DOMAIN device_binding :
        /\ device_binding[i].device_id = device
        /\ Lower(device_binding[i].rollnumber) # Lower(roll)

MarkedOn(roll, day) ==
    \E i \in DOMAIN attendance_new :
        /\ Lower(attendance_new[i].rollnumber) = Lower(roll)
        /\ attendance_new[i].datestamp = day

Expired(token) == \E t0 \in Stamps : token = QrToken(t0) /\ now - t0 > 20

\* the step is a page run of app1 started by the Mark Attendance button, with
\* the session, URL and inputs its report names
MarkClick ==
    /\ last'.app = "app1"
    /\ last'.click.widget = "qr_mark_attendance_button"
    /\ ClickMarkAttendance(last'.session, last'.token, last'.click.form,
                           last'.click.use_manual, last'.click.pos)

\* ... and the run called mark_attendance_qr
MarkRun == last'.mark.called /\ MarkClick

\* the step is a run of app.py's portal that called its mark_attendance_qr
AppMarkRun ==
    /\ last'.app = "app"
    /\ last'.mark.called
    /\ AppMarkAttendance(last'.click.form)

\* the inputs of the run the step makes
TheForm == last'.click.form
TheRoll == TypedRoll(last'.click.form)
TheDevice == get_device_id(last'.session)
TheLocationInside == InsideRadius(last'.click.use_manual, last'.click.pos)

\* C1: a page run whose access parameter is a well-formed token "qr_<t0>" is
\* granted access exactly when the token is at most 20 seconds old at the time
\* of the run, whether or not the session had been granted access before.
C1_FreshnessWindow ==
    \A t0 \in Stamps :
        last.app = "app1" /\ last.token = QrToken(t0) => (last.access.ok <=> last.time - t0 <= 20)

\* a token of age 20 was accepted
C1_Witness ==
    /\ last.app = "app1"
    /\ last.token = QrToken(last.time - 20)
    /\ last.access.ok

\* C2 (rows): the ledger holds at most one row per roll number, compared
\* ignoring case, and date.
OneRowPerRollAndDate ==
    \A i, j \in DOMAIN attendance_new :
        (/\ Lower(attendance_new[i].rollnumber) = Lower(attendance_new[j].rollnumber)
         /\ attendance_new[i].datestamp = attendance_new[j].datestamp) => i = j

\* C2 (second check-in): a check-in for a roll number that has a row for today
\* adds no row and is not accepted, and when it passes the checks made before
\* the duplicate check it is rejected as already marked.
SecondCheckInRejected ==
    /\ (MarkedOn(TheRoll, today) /\ MarkRun)
          => /\ ~last'.mark.ok
             /\ attendance_new' = attendance_new
             /\ (OnRoster(TheForm) /\ TheLocationInside /\ ~BoundElsewhere(TheRoll, TheDevice))
                => last'.mark.reason = "Attendance already marked today"
    /\ (MarkedOn(TheForm.rollnumber, today) /\ AppMarkRun)
          => /\ ~last'.mark.ok
             /\ attendance_new' = attendance_new
             /\ OnRosterAsTyped(TheForm)
                => last'.mark.reason = "Attendance already marked today"

\* C2: under sequential execution the ledger holds at most one row per
\* (roll number ignoring case, date), and the second of two check-ins for the
\* same roll number on the same date is rejected as already marked.
C2_OneMarkPerDay == []OneRowPerRollAndDate /\ [][SecondCheckInRejected]_vars

\* a second check-in was rejected as already marked while the ledger holds the
\* roll number's rows of two dates
C2_Witness ==
    /\ last.mark.called
    /\ last.mark.reason = "Attendance already marked today"
    /\ \E i, j \in DOMAIN attendance_new :
           /\ Lower(attendance_new[i].rollnumber) = Lower(attendance_new[j].rollnumber)
           /\ attendance_new[i].rollnumber # attendance_new[j].rollnumber
           /\ attendance_new[i].datestamp # attendance_new[j].datestamp

\* C3: the device-binding table is a bijection: no two rows hold the same roll
\* number (ignoring case) and no two rows hold the same device_id.
C3_BindingBijection ==
    \A i, j \in DOMAIN device_binding :
        i # j => /\ Lower(device_binding[i].rollnumber) # Lower(device_binding[j].rollnumber)
                 /\ device_binding[i].device_id # device_binding[j].device_id

\* C4: a check-in by a rostered roll number from a device that is bound to a
\* different roll number is rejected and writes no binding row and no ledger row.
C4_DeviceAlreadyBound ==
    [][(/\ OnRoster(TheForm)
        /\ BoundToAnother(TheDevice, TheRoll)
        /\ MarkRun)
       => /\ ~last'.mark.ok
          /\ device_binding' = device_binding
          /\ attendance_new' = attendance_new]_vars

\* C5: while roll number A is bound to device D1, a check-in for A from
\* another device is rejected and writes neither a binding row nor a ledger
\* row, with the device-mismatch reason when it passes the roster and location
\* checks made before the device check; a check-in for A from D1 is never
\* rejected for its device and adds no binding row.
C5_RollAlreadyBound ==
    [][(/\ existing_binding(device_binding, TheRoll) # <<>>
        /\ MarkRun)
       => IF BoundElsewhere(TheRoll, TheDevice)
          THEN /\ ~last'.mark.ok
               /\ device_binding' = device_binding
               /\ attendance_new' = attendance_new
               /\ (OnRoster(TheForm) /\ TheLocationInside)
                  => last'.mark.reason = "Device Mismatch"
          ELSE /\ last'.mark.reason # "Device Mismatch"
               /\ device_binding' = device_binding]_vars

\* the roll number checked in from its device, then was refused on another
C5_Witness ==
    /\ last.mark.called
    /\ last.mark.reason = "Device Mismatch"
    /\ \E i \in DOMAIN device_binding, j \in DOMAIN attendance_new :
           /\ device_binding[i].device_id # get_device_id(last.session)
           /\ Lower(attendance_new[j].rollnumber) = Lower(device_binding[i].rollnumber)

\* the reason a page run shows: the gate's, or mark_attendance_qr's
ShownReason == IF last'.access.ok THEN last'.mark.reason ELSE last'.access.reason

\* the first check to fail when the checks are made in the order token
\* freshness, roster identity, geofence, device binding, duplicate
CodeOrderReason ==
    IF Expired(last'.token) THEN "QR Code expired"
    ELSE IF ~OnRoster(TheForm) THEN "Student not found in the database"
    ELSE IF ~TheLocationInside THEN "Location Error"
    ELSE IF BoundElsewhere(TheRoll, TheDevice) THEN "Device Mismatch"
    ELSE IF MarkedOn(TheRoll, today) THEN "Attendance already marked today"
    ELSE "Attendance marked successfully"

\* the first check to fail when the checks are made in the order token
\* freshness, geofence, device binding, roster identity, duplicate
ClaimedOrderReason ==
    IF Expired(last'.token) THEN "QR Code expired"
    ELSE IF ~TheLocationInside THEN "Location Error"
    ELSE IF BoundElsewhere(TheRoll, TheDevice) THEN "Device Mismatch"
    ELSE IF ~OnRoster(TheForm) THEN "Student not found in the database"
    ELSE IF MarkedOn(TheRoll, today) THEN "Attendance already marked today"
    ELSE "Attendance marked successfully"

\* C6 (as amended): a check-in shows the reason of the first check that fails
\* in the order token freshness, roster identity, geofence, device binding,
\* duplicate: the roster-identity check is made first inside
\* mark_attendance_qr, before the geofence and device-binding checks.
C6_CodeOrder == [][MarkClick => ShownReason = CodeOrderReason]_vars

\* C6 (as claimed): a check-in shows the reason of the first check that fails
\* in the order token freshness, geofence, device binding, roster identity,
\* duplicate, the roster-identity check being made after the geofence and
\* device-binding checks.
C6_ClaimedOrder == [][MarkClick => ShownReason = ClaimedOrderReason]_vars

\* a check-in whose name is not the roster's, made outside the radius on a
\* device other than the one its roll number is bound to, was told that the
\* student was not found
C6_Witness ==
    /\ last.app = "app1"
    /\ last.mark.called
    /\ last.mark.reason = "Student not found in the database"
    /\ ~InsideRadius(last.click.use_manual, last.click.pos)
    /\ BoundElsewhere(TypedRoll(last.click.form), get_device_id(last.session))

\* the (ok, reason) pairs mark_attendance_qr returns
MarkResults ==
    {<<TRUE, "Attendance marked successfully">>}
    \cup {<<FALSE, reason>> : reason \in {"Student not found in the database",
                                          "Location access required",
                                          "Location Error",
                                          "Device Mismatch",
                                          "Attendance already marked today"}}

\* the roll number, name and date of every row
Keys(df) == app_ensure_attendance_new_schema(df)

\* the ledger gained exactly one row, for this roll number and today, behind
\* the rows it had
OneRowAppended(roll) ==
    /\ Len(attendance_new') = Len(attendance_new) + 1
    /\ Keys(SubSeq(attendance_new', 1, Len(attendance_new))) = Keys(attendance_new)
    /\ attendance_new'[Len(attendance_new')].rollnumber = roll
    /\ attendance_new'[Len(attendance_new')].datestamp = today

RowsFor(roll) ==
    {i \in DOMAIN attendance_new :
        /\ Lower(attendance_new[i].rollnumber) = Lower(roll)
        /\ attendance_new[i].datestamp = today}

\* the calls of s and o were for the same roll number, each passed the
\* duplicate check before the other saved, and both have returned
RacedToTheEnd(s, o) ==
    /\ s # o
    /\ req[s].pc = "returned" /\ req[s].raced
    /\ req[o].pc = "returned" /\ req[o].raced
    /\ Lower(req[s].form.rollnumber) = Lower(req[o].form.rollnumber)

C9_ExpiredStops ==
    [][\A t0 \in Stamps :
         (/\ last'.token = QrToken(t0)
          /\ now - t0 > 20
          /\ last'.app = "app1"
          /\ main(last'.session, last'.token, last'.click))
         => /\ ~last'.access.ok
            /\ last'.access.reason = "QR Code expired"
            /\ last'.access.age = now - t0
            /\ qr_access_granted' = qr_access_granted
            /\ ~last'.mark.called
            /\ attendance_new' = attendance_new
            /\ device_binding' = device_binding]_vars

\* a granted session that had enabled location pressed Mark Attendance with a
\* token issued 25 seconds before, and was refused with age 25
C9_Witness ==
    /\ last.app = "app1"
    /\ last.token = QrToken(last.time - 25)
    /\ last.access.reason = "QR Code expired"
    /\ last.access.age = 25
    /\ last.click.widget = "qr_mark_attendance_button"
    /\ last.click.form = Student(A1, Ann, CSE)
    /\ qr_access_granted[last.session]
    /\ location_requested[last.session]
    /\ attendance_new = <<>>

\* an optional sign and one or more digits
IsInteger(str) ==
    LET body == IF str # <<>> /\ str[1] \in {"-", "+"} THEN Tail(str) ELSE str
    IN  body # <<>> /\ \A i \in DOMAIN body : IsDigit(body[i])

\* "qr_<integer>"
IsQrInteger(token) ==
    /\ StartsWith(token, QR_PREFIX)
    /\ IsInteger(SubSeq(token, Len(QR_PREFIX) + 1, Len(token)))

\* C10: a page run whose access parameter is not of the form "qr_<integer>",
\* the prefix missing or the part after it not an integer, is refused with the
\* malformed-token reason, whatever the session's flags hold.
C10_MalformedRejected ==
    (/\ last.app = "app1"
     /\ last.token # NoAccess
     /\ ~IsQrInteger(last.token))
    => /\ ~last.access.ok
       /\ last.access.reason = "Invalid QR code format"

\* the distance mark_attendance_qr measures in the run the step makes
TheDistance == IF last'.click.use_manual THEN Abs(last'.click.pos) ELSE 0

\* C11: mark_attendance_qr rejects a rostered check-in for its location
\* exactly when the distance from the campus point exceeds 500 m (500 itself
\* passes, as it does in check_location); the rejection is a (False, reason)
\* outcome that carries the distance, and it writes neither the binding file
\* nor the ledger.
C11_Geofence ==
    [][(OnRoster(TheForm) /\ MarkRun)
       => /\ (last'.mark.reason = "Location Error") <=> (TheDistance > 500)
          /\ IF last'.click.use_manual
             THEN (last'.mark.reason = "Location Error")
                      <=> ~check_location(last'.click.pos).ok
             ELSE last'.mark.reason # "Location Error"
          /\ (TheDistance > 500)
             => /\ ~last'.mark.ok
                /\ last'.mark.dist = TheDistance
                /\ device_binding' = device_binding
                /\ attendance_new' = attendance_new]_vars

\* a check-in 501 m south of the campus point was refused with its distance,
\* after one at exactly 500 m had been recorded
C11_Witness ==
    /\ last.mark.reason = "Location Error"
    /\ last.click.pos = -501
    /\ last.mark.dist = 501
    /\ OnRoster(last.click.form)
    /\ \E i \in DOMAIN attendance_new :
           attendance_new[i].distance_from_college = <<500>>

\* C12: whenever mark_attendance_qr (app1) rejects a check-in because no
\* roster row matches roll number, name and branch together, its message
\* names at least one of roll number, name or branch as not found.
C12_DiagnosticNamesField ==
    (/\ last.app = "app1"
     /\ last.mark.called
     /\ last.mark.reason = "Student not found in the database")
    => last.mark.fields # {}

\* C13: every mark_attendance_qr call (app1) that returns a rejection, an
\* already-marked rejection included, leaves the device-binding table as it
\* was: binding rows are created by accepted check-ins only.
C13_BindingOnlyOnAccept ==
    [][(MarkRun /\ ~last'.mark.ok) => device_binding' = device_binding]_vars

\* no two roster rows hold the same roll number, ignoring case
RosterUnique(students_df) ==
    \A i, j \in DOMAIN students_df :
        Lower(students_df[i].rollnumber) = Lower(students_df[j].rollnumber) => i = j

\* the roster holds the roll number that the Add Student button would store
Stored(new_roll) ==
    \E i \in DOMAIN students_new :
        Lower(students_new[i].rollnumber) = Lower(Strip(new_roll))

\* C16: an admin add or remove leaves a roster in which no two rows hold the
\* same roll number under case-insensitive comparison, and an add whose roll
\* number is in the roster already is refused and leaves the roster unchanged.
C16_RosterUnique ==
    [][/\ RosterUnique(students_new) => RosterUnique(students_new')
       /\ \A form \in RosterForms :
             (/\ Stored(form.rollnumber)
              /\ \/ ClickAddStudent("D1", NoAccess, form)
                 \/ AddStudent(form))
             => students_new' = students_new]_vars

\* the step is the reset of roll's binding in app1 or its unbind in app12
UnbindStep(roll) ==
    \/ UnbindDevice(roll)
    \/ /\ last'.click.widget = "reset_device_btn"
       /\ last'.click.roll = roll
       /\ ClickResetDevice(last'.session, last'.token, roll)

\* C14: a binding row stays in the table, in its place, through every
\* check-in and roster edit: a step either leaves the table as it was, or
\* appends one row, or is the admin reset/unbind of a roll number and removes
\* the rows of that roll number only; and a check-in for a roll number
\* without a binding row that reaches the device step binds the device it is
\* made from.
C14_BindingPersists ==
    [][/\ \/ device_binding' = device_binding
          \/ /\ Len(device_binding') = Len(device_binding) + 1
             /\ SubSeq(device_binding', 1, Len(device_binding)) = device_binding
          \/ \E roll \in BoundRolls :
                /\ UnbindStep(roll)
                /\ device_binding' =
                       SelectSeq(device_binding, LAMBDA row : row.rollnumber # roll)
       /\ (/\ existing_binding(device_binding, TheRoll) = <<>>
           /\ OnRoster(TheForm)
           /\ TheLocationInside
           /\ MarkRun)
          => device_binding' = Append(device_binding, Binding(TheRoll, TheDevice))]_vars

\* with the roster edited and A2 bound as well, A1 kept its device D1 and
\* was refused on D2; or, unbound by the admin, A1 has bound D2
C14_Witness ==
    /\ students_new # Roster
    /\ \E i \in DOMAIN device_binding : device_binding[i].rollnumber = A2
    /\ \/ /\ last.mark.reason = "Device Mismatch"
          /\ last.session = "D2"
          /\ \E i \in DOMAIN device_binding : device_binding[i] = Binding(A1, "D1")
       \/ /\ last.mark.reason = "Attendance already marked today"
          /\ last.session = "D2"
          /\ device_binding[Len(device_binding)] = Binding(A1, "D2")

\* the step is app1's Clear All Attendance
ClearStep ==
    /\ last'.click.widget = "clear_attendance_btn"
    /\ ClickClearAttendance(last'.session, last'.token)

\* the rows with every column of the ledger, a column that the file lacks
\* reading as blank
AllColumns(df) == ensure_attendance_new_schema(df)

\* C15: under sequential execution a check-in, roster edit or device unbind
\* leaves the rows of the ledger as they were, or as they were with one row
\* appended at the end; only Clear All Attendance removes rows.
C15_LedgerAppendOnly ==
    [][\/ AllColumns(attendance_new') = AllColumns(attendance_new)
       \/ /\ Len(attendance_new') = Len(attendance_new) + 1
          /\ AllColumns(SubSeq(attendance_new', 1, Len(attendance_new)))
                 = AllColumns(attendance_new)
       \/ ClearStep]_vars

\* the step is a page run of app1 with the session, URL and click its report names
PageRun ==
    /\ last'.app = "app1"
    /\ main(last'.session, last'.token, last'.click)

\* C17: whether a page run admits a well-formed token "qr_<t0>" is settled by
\* the token's age alone, whatever the admin's console holds: a token of age at
\* most 20 is admitted when it is the QR code on the admin's screen, when a
\* later QR code has replaced it, when the admin has cleared the QR code, and
\* when no QR code was ever generated at t0; an older one is refused.
C17_IssuerIndependent ==
    [][\A t0 \in Stamps :
         (PageRun /\ last'.token = QrToken(t0))
         => /\ now - t0 <= 20 => last'.access.ok /\ qr_access_granted'[last'.session]
            /\ now - t0 > 20 => ~last'.access.ok]_vars

\* a token was admitted after a later QR code had replaced it
C17_Witness ==
    /\ last.app = "app1"
    /\ last.access.ok
    /\ \E t0 \in qr_log :
           /\ last.token = QrToken(t0)
           /\ t0 < qr_generated_time
           /\ qr_generated_time < last.time

\* the step runs the loader of file name in session s of app1
LoaderRun(s, name) ==
    \/ /\ name = STUDENTS_NEW_CSV
       /\ \E form \in AdminCheckForms : CallMark(s, form, At(COLLEGE_POSITION))
    \/ name = DEVICE_BINDING_CSV /\ LoadDeviceBinding(s)
    \/ name = ATTENDANCE_NEW_CSV /\ LoadAttendanceNew(s)

\* the rows of a file
Rows(name) ==
    IF name = STUDENTS_NEW_CSV THEN students_new
    ELSE IF name = ATTENDANCE_NEW_CSV THEN attendance_new
    ELSE device_binding

\* C18: a page run that loads a store whose file pd.read_csv cannot read
\* leaves the file recreated empty and goes on: no exception ends the run, in
\* the check-in of app1 and in the admin's page of app12.
C18_LoadReinitialises ==
    [][/\ \A s \in Sessions, name \in unreadable :
            LoaderRun(s, name)
            => /\ req'[s].pc # "raised"
               /\ name \notin unreadable'
               /\ Rows(name)' = <<>>
       /\ (AdminPanel /\ unreadable # {})
            => /\ last'.mark.reason # "Traceback"
               /\ unreadable' = {}]_vars

\* C19: a call of mark_attendance_qr without coordinates is not rejected for
\* location: the location step is skipped, and a call whose details match a
\* roster row goes on to the device check.
C19_LocationOptional ==
    [][\A s \in Sessions, form \in DeviceForms :
         CallMark(s, form, NoLocation)
         => /\ req'[s].reason # "Location access required"
            /\ OnRoster(form) => req'[s].pc = "load_device_binding"]_vars

C22_WritesBehindGate ==
    [][PageRun
       => /\ (\/ attendance_new' # attendance_new
               \/ device_binding' # device_binding
               \/ last'.mark.called)
             => last'.access.ok /\ location_verified[last'.session]
          /\ ~last'.access.ok
             => ~last'.mark.called /\ UNCHANGED files]_vars

\* a check-in was accepted in a granted, verified session
C22_Witness ==
    /\ last.app = "app1"
    /\ last.click.widget = "qr_mark_attendance_button"
    /\ last.access.ok
    /\ last.mark.ok
    /\ location_verified[last.session]
    /\ attendance_new # <<>>
    /\ device_binding # <<>>

\* C23: in a session that check_qr_access has granted access, a page run
\* that follows a granted run with the same URL is granted too, also when the
\* token of the URL has become older than 20 seconds in between.
C23_GrantedSessionPasses ==
    [][(/\ PageRun
        /\ last.app = "app1"
        /\ last.session = last'.session
        /\ last.token = last'.token
        /\ last.access.ok
        /\ qr_access_granted[last'.session])
       => last'.access.ok]_vars

\* C24: no step resets a session's qr_access_granted flag once it is set, and
\* every page run of a session with the flag set whose URL has no access
\* parameter, or one that does not start with "qr_", is granted access,
\* whatever time has passed.
C24_GrantSticks ==
    [][/\ \A s \in Sessions : qr_access_granted[s] => qr_access_granted'[s]
       /\ (/\ PageRun
           /\ qr_access_granted[last'.session]
           /\ ~StartsWith(last'.token, QR_PREFIX))
          => last'.access.ok]_vars

\* more than an hour after the start, a run without a token was granted
C24_Witness ==
    /\ last.app = "app1"
    /\ last.token = NoAccess
    /\ last.access.ok
    /\ last.time >= StartTime + 3600
    /\ qr_access_granted[last.session]

\* C25: a page run that admits a token "qr_<t0>" runs at a time t with
\* 0 <= t - t0 <= 20: a token stamped later than the time of the run is
\* refused.
C25_NoFutureTokens ==
    \A t0 \in Stamps :
        (last.app = "app1" /\ last.token = QrToken(t0) /\ last.access.ok)
        => 0 <= last.time - t0 /\ last.time - t0 <= 20

\* C26: once no check-in is under way, every session whose last check-in
\* returned success has the row of its roll number and date in the ledger file.
C26_NoAcceptedRowLost ==
    (\A s \in Sessions : req[s].pc \in {"idle", "returned"})
    => \A s \in Sessions :
           (req[s].pc = "returned" /\ req[s].ok)
           => \E i \in DOMAIN attendance_new :
                  /\ Lower(attendance_new[i].rollnumber) = Lower(req[s].form.rollnumber)
                  /\ attendance_new[i].datestamp = today

\* C27: attendance.csv never holds two rows with the same username and date,
\* however the mark_attendance calls of the sessions interleave.
C27_OneRowPerUsername ==
    \A i, j \in DOMAIN attendance :
        (attendance[i].username = attendance[j].username
         /\ attendance[i].date = attendance[j].date) => i = j

\* C28: while a generated QR code is on the admin's page, the page shows it
\* as active exactly when check_qr_access would admit its token at that moment,
\* and as expired exactly when check_qr_access would refuse it.
C28_PanelAgreesWithGate ==
    qr_code_active
    => LET shown == qr_panel(qr_code_active, qr_generated_time, now)
           admitted == check_qr_access(QrToken(qr_generated_time), FALSE, now).ok
       IN  /\ shown = "QR Code Active" <=> admitted
           /\ shown = "QR Code Expired" <=> ~admitted

\* what a Verify OTP click by username in session s with input_otp must obey
OtpVerifyRule(s, username, input_otp) ==
    /\ otp_result'.ok =>
          /\ username \in DOMAIN otp_sent[s]
          /\ input_otp = otp_sent[s][username].otp
          /\ now <= otp_sent[s][username].at + OTP_VALIDITY_MINUTES * 60
          /\ otp_sent'[s][username].successes <= 1
          /\ username \notin DOMAIN otp_store'[s]
    /\ (username \in DOMAIN otp_store[s] /\ now > otp_store[s][username].expiry) =>
          /\ ~otp_result'.ok
          /\ username \notin DOMAIN otp_store'[s]

\* C29: an OTP stored by send_otp verifies successfully at most once; a
\* verification succeeds only when the submitted code equals the OTP sent
\* last to that username in that session and the time is no later than five
\* minutes after it was sent; a success, and an attempt on an expired OTP,
\* both remove the record from otp_store.
C29_OtpSingleUse ==
    [][\A su \in OtpUsers, input_otp \in OtpCodes :
          ClickVerifyOtp(su[1], su[2], input_otp, "GEC", "L1")
              => OtpVerifyRule(su[1], su[2], input_otp)]_vars

\* an OTP sent in the second session some minutes in is verified at the last
\* second of its validity, while the first session still holds its own OTP
\* for the same username
C29_Witness ==
    /\ otp_result.ok
    /\ otp_result.session = "D2"
    /\ otp_sent["D2"]["asha"].successes = 1
    /\ otp_sent["D2"]["asha"].at > StartTime
    /\ now = otp_sent["D2"]["asha"].at + OTP_VALIDITY_MINUTES * 60
    /\ "asha" \notin DOMAIN otp_store["D2"]
    /\ "asha" \in DOMAIN otp_store["D1"]

\* a call never posts more than retries requests
QueryPostsBounded == hf.posts <= hf.retries

\* a call that has returned has returned the remote text, a local fallback
\* or the empty string
QueryReturns ==
    hf.pc = "returned" =>
        hf.result \in {"remote generated_text", "remote summary_text", "remote text",
                       "remote other item", "local instruction text",
                       "local summary text", ""}

====
